---- MODULE Spec2Model ----
(***************************************************************************)
(* Model of the token authenticator (internal/auth/authn/token.go), of the  *)
(* git hook bridge (internal/githook/cli.go) and of the pull request       *)
(* controller's FileViewAdd (internal/api/controller/pullreq).             *)
(*                                                                         *)
(* Conventions.  An optional value (a Go pointer or error that may be nil) *)
(* is a sequence of length 0 (nil) or 1.  A text (an error message, a line *)
(* of standard input) is a sequence of strings, so that concatenation and  *)
(* prefixes are those of the program.                                      *)
(***************************************************************************)
EXTENDS Integers, Sequences, FiniteSets, TLC

VARIABLES userStore, saStore, tokenStore, nextTokenID, revoked, last,
          hook, codec, fileViewStore, fileView

vars == <<userStore, saStore, tokenStore, nextTokenID, revoked, last, hook, codec,
          fileViewStore, fileView>>

None == <<>>
Some(x) == <<x>>

(***************************************************************************)
(* Bounds of the model.                                                    *)
(***************************************************************************)
MaxTokens == 2
MaxRotations == 1

(***************************************************************************)
(* Principals, token classes, secrets.                                     *)
(***************************************************************************)
\* principal ids a credential can name: 1 is stored as a user, 2 as a service
\* account, 3 is stored nowhere
UserIDs == {1}
ServiceAccountIDs == {2}
PrincipalIDs == UserIDs \cup ServiceAccountIDs \cup {3}

TokenTypePAT == "pat"
TokenTypeSession == "session"
TokenTypeOAuth2 == "oauth2"
TokenTypeSAT == "sat"
\* the four classes of enum.TokenType and one value that is none of them
TokenTypes == {TokenTypePAT, TokenTypeSession, TokenTypeOAuth2, TokenTypeSAT, "other"}

\* the secret (salt) of principal p after v rotations; distinct for distinct
\* principals and distinct rotations
Salt(p, v) == <<p, v>>
Salts == {Salt(p, v) : p \in UserIDs \cup ServiceAccountIDs, v \in 0..MaxRotations}

TokenIDs == 1..(MaxTokens + 1)
GrantSets == {"read"}

(***************************************************************************)
(* Credentials.  A string of the request is a sequence of atoms: literal   *)
(* pieces of text, a JWT (three well-formed segments) or the base64 blob   *)
(* of HTTP Basic credentials.                                              *)
(***************************************************************************)
Lit(s) == [t |-> "lit", s |-> s]
JWTClaims == [PrincipalID : PrincipalIDs, TokenType : TokenTypes, TokenID : TokenIDs]

\* the signing methods registered with the JWT library, and one name that is not
SigningMethodHMAC == {"HS256"}
RegisteredMethods == SigningMethodHMAC \cup {"none", "RS256"}
Algs == RegisteredMethods \cup {"XX"}

\* the keyed hash of a token's header and claim set under key
HMAC(alg, claims, key) == Some(<<alg, claims, key>>)
JunkSig == None
JWT(alg, claims, sig) == [t |-> "jwt", alg |-> alg, claims |-> claims, sig |-> sig]
JWTs == UNION {{JWT(alg, c, sig) : sig \in {HMAC(alg, c, k) : k \in Salts} \cup {JunkSig}} :
                 alg \in Algs, c \in JWTClaims}
\* a token string: empty, not a JWT at all, or a JWT
TokenStrings == {<<>>, <<Lit("garbage")>>} \cup {<<j>> : j \in JWTs}

\* the decoded blob of a Basic Authorization header, "user:pass"
B64(user, pass) == [t |-> "b64", user |-> user, pass |-> pass]

(***************************************************************************)
(* Errors, as their texts.                                                 *)
(***************************************************************************)
ErrNoAuthData == <<"the request doesn't contain any auth data">>
ErrResourceNotFound == <<"resource not found">>
ErrInvalidToken == <<"invalid token">>
\* errors of the JWT library
ErrMalformed == <<"token contains an invalid number of segments">>
ErrMethodUnavailable == <<"signing method (alg) is unavailable.">>
ErrSignatureInvalid == <<"signature is invalid">>
ErrNoneDisallowed == <<"'none' signature type is not allowed">>
ErrInvalidKeyType == <<"key is of invalid type">>

ErrUnsupportedTokenType(tt) == <<"unsupported token type '", tt, "'">>
ErrGetPrincipal(inner) == <<"failed to get principal for token: ">> \o inner
ErrTokenNotFound(inner) == <<"token wasn't found: ">> \o inner

(***************************************************************************)
(* The stores: a store is a function from the ids it holds to records.     *)
(***************************************************************************)
\* store.Find: the record, or the store's not-found error
Find(store, id) ==
    IF id \in DOMAIN store
    THEN [v |-> Some(store[id]), err |-> None]
    ELSE [v |-> None, err |-> Some(ErrResourceNotFound)]

PrincipalFromUser(user) ==
    [ID |-> user.ID, Type |-> "user", Salt |-> user.Salt]
PrincipalFromServiceAccount(sa) ==
    [ID |-> sa.ID, Type |-> "serviceaccount", Salt |-> sa.Salt]

(***************************************************************************)
(* TokenAuthenticator                                                      *)
(***************************************************************************)
\* a resolver that falls back to the user store for a class it does not know
getPrincipalDefaultUser(claims, us, ss) ==
    IF claims.TokenType = TokenTypeSAT
    THEN LET f == Find(ss, claims.PrincipalID) IN
         [principal |-> IF f.err # None THEN None
                        ELSE Some(PrincipalFromServiceAccount(f.v[1])),
          err |-> f.err,
          lookups |-> << <<"saStore.Find", claims.PrincipalID>> >>]
    ELSE LET f == Find(us, claims.PrincipalID) IN
         [principal |-> IF f.err # None THEN None ELSE Some(PrincipalFromUser(f.v[1])),
          err |-> f.err,
          lookups |-> << <<"userStore.Find", claims.PrincipalID>> >>]

getPrincipal(claims, us, ss) ==
    CASE claims.TokenType \in {TokenTypePAT, TokenTypeSession, TokenTypeOAuth2} ->
            LET f == Find(us, claims.PrincipalID) IN
            [principal |-> IF f.err # None THEN None ELSE Some(PrincipalFromUser(f.v[1])),
             err |-> f.err,
             lookups |-> << <<"userStore.Find", claims.PrincipalID>> >>]
      [] claims.TokenType = TokenTypeSAT ->
            LET f == Find(ss, claims.PrincipalID) IN
            [principal |-> IF f.err # None THEN None
                           ELSE Some(PrincipalFromServiceAccount(f.v[1])),
             err |-> f.err,
             lookups |-> << <<"saStore.Find", claims.PrincipalID>> >>]
      [] OTHER ->
            [principal |-> None,
             err |-> Some(ErrUnsupportedTokenType(claims.TokenType)),
             lookups |-> <<>>]

HasPrefix(str, s) == Len(str) > 0 /\ str[1] = Lit(s)
TrimPrefix(str, s) == IF HasPrefix(str, s) THEN Tail(str) ELSE str

\* (*http.Request).BasicAuth: the scheme "Basic" in any case of letters, a
\* space, and a base64 blob holding a colon
BasicAuth(auth) ==
    IF Len(auth) = 3 /\ auth[1] \in {Lit("Basic"), Lit("basic")} /\ auth[2] = Lit(" ")
          /\ auth[3].t = "b64"
    THEN [password |-> auth[3].pass, ok |-> TRUE]
    ELSE [password |-> <<>>, ok |-> FALSE]

\* an extraction that falls back to the form value when the header holds
\* Basic credentials it cannot decode
extractTokenFormFallback(r) ==
    LET bearer == r.Authorization IN
    IF bearer = <<>> THEN r.access_token
    ELSE IF HasPrefix(bearer, "Basic")
         THEN (IF ~BasicAuth(bearer).ok THEN r.access_token ELSE BasicAuth(bearer).password)
         ELSE TrimPrefix(TrimPrefix(bearer, "Bearer "), "IdentityService ")

\* an extraction that takes the first value of the Basic credentials, the
\* username, for the token
extractTokenBasicUser(r) ==
    LET bearer == r.Authorization IN
    IF bearer = <<>> THEN r.access_token
    ELSE IF HasPrefix(bearer, "Basic")
         THEN (IF ~BasicAuth(bearer).ok THEN <<>> ELSE <<Lit(bearer[3].user)>>)
         ELSE TrimPrefix(TrimPrefix(bearer, "Bearer "), "IdentityService ")

extractToken(r) ==
    LET bearer == r.Authorization IN
    IF bearer = <<>> THEN r.access_token
    ELSE IF HasPrefix(bearer, "Basic")
         THEN (IF ~BasicAuth(bearer).ok THEN <<>> ELSE BasicAuth(bearer).password)
         ELSE TrimPrefix(TrimPrefix(bearer, "Bearer "), "IdentityService ")

(***************************************************************************)
(* jwt.ParseWithClaims, as the library runs it on the authenticator's key  *)
(* function: split and decode the segments, look up the declared signing   *)
(* method, call the key function, validate the claims, verify the          *)
(* signature.                                                              *)
(***************************************************************************)
\* token.JWTClaims.Valid: the claim set holds the principal id, the token
\* class and the token id and nothing that can expire
ClaimsValid(claims) == TRUE

\* SigningMethod.Verify with the key the key function returns, a byte slice:
\* only the keyed-hash methods take such a key
Verify(alg, claims, sig, key) ==
    CASE alg \in SigningMethodHMAC ->
            IF sig = HMAC(alg, claims, key) THEN None ELSE Some(ErrSignatureInvalid)
      [] alg = "none" -> Some(ErrNoneDisallowed)
      [] OTHER -> Some(ErrInvalidKeyType)

ParseUnverified(str) ==
    IF ~(Len(str) = 1 /\ str[1].t = "jwt")
    THEN [err |-> Some(ErrMalformed), token |-> None]
    ELSE IF str[1].alg \notin RegisteredMethods
         THEN [err |-> Some(ErrMethodUnavailable), token |-> None]
         ELSE [err |-> None, token |-> Some(str[1])]

\* the result: the parsed token's Valid and Method, the error, and what the
\* key function left in the variables it closes over (claims, principal)
\* and the calls it made
ParseWithClaimsSkipVerify(str, us, ss) ==
    LET u == ParseUnverified(str) IN
    IF u.err # None
    THEN [Valid |-> FALSE, Method |-> "", claims |-> None, err |-> u.err,
          principal |-> None, calls |-> <<>>]
    ELSE LET tok == u.token[1]
             gp == getPrincipal(tok.claims, us, ss)
         IN  IF gp.err # None
             THEN [Valid |-> FALSE, Method |-> tok.alg, claims |-> Some(tok.claims),
                   err |-> Some(ErrGetPrincipal(gp.err[1])),
                   principal |-> None, calls |-> gp.lookups]
             ELSE [Valid |-> TRUE, Method |-> tok.alg, claims |-> Some(tok.claims),
                   err |-> None, principal |-> gp.principal, calls |-> gp.lookups]

ParseWithClaims(str, us, ss) ==
    LET u == ParseUnverified(str) IN
    IF u.err # None
    THEN [Valid |-> FALSE, Method |-> "", claims |-> None, err |-> u.err,
          principal |-> None, calls |-> <<>>]
    ELSE LET tok == u.token[1]
             \* the key function: token.go lines 58-69
             gp == getPrincipal(tok.claims, us, ss)
         IN  IF gp.err # None
             THEN [Valid |-> FALSE, Method |-> tok.alg, claims |-> Some(tok.claims),
                   err |-> Some(ErrGetPrincipal(gp.err[1])),
                   principal |-> None, calls |-> gp.lookups]
             ELSE LET key == gp.principal[1].Salt
                      verr == IF ~ClaimsValid(tok.claims) THEN Some(<<"token is expired">>)
                              ELSE Verify(tok.alg, tok.claims, tok.sig, key)
                  IN  [Valid |-> verr = None, Method |-> tok.alg,
                       claims |-> Some(tok.claims), err |-> verr,
                       principal |-> gp.principal,
                       calls |-> gp.lookups \o << <<"Verify", tok.claims.PrincipalID>> >>]

NoSession(err, calls) == [session |-> None, err |-> Some(err), calls |-> calls]

\* Authenticate from the parse result on: token.go lines 70-95
sessionOfNoTokenLookup(parsed, ts) ==
    IF parsed.err # None THEN NoSession(parsed.err[1], parsed.calls)
    ELSE IF ~parsed.Valid THEN NoSession(ErrInvalidToken, parsed.calls)
    ELSE IF parsed.Method \notin SigningMethodHMAC
         THEN NoSession(ErrInvalidToken, parsed.calls)
    ELSE [session |-> Some([Principal |-> parsed.principal[1],
                            Metadata |-> [TokenType |-> parsed.claims[1].TokenType,
                                          TokenID |-> parsed.claims[1].TokenID,
                                          Grants |-> "read"]]),
          err |-> None, calls |-> parsed.calls]

sessionOfClaimedMetadata(parsed, ts) ==
    IF parsed.err # None THEN NoSession(parsed.err[1], parsed.calls)
    ELSE IF ~parsed.Valid THEN NoSession(ErrInvalidToken, parsed.calls)
    ELSE IF parsed.Method \notin SigningMethodHMAC
         THEN NoSession(ErrInvalidToken, parsed.calls)
    ELSE LET id == parsed.claims[1].TokenID
             f == Find(ts, id)
             calls == parsed.calls \o << <<"tokenStore.Find", id>> >>
         IN  IF f.err # None THEN NoSession(ErrTokenNotFound(f.err[1]), calls)
             ELSE [session |-> Some([Principal |-> parsed.principal[1],
                                     Metadata |-> [TokenType |-> parsed.claims[1].TokenType,
                                                   TokenID |-> f.v[1].ID,
                                                   Grants |-> f.v[1].Grants]]),
                   err |-> None, calls |-> calls]

\* a run that hands out the principal and the claimed metadata together with
\* the error when the token record is missing
sessionOfPartial(parsed, ts) ==
    IF parsed.err # None THEN NoSession(parsed.err[1], parsed.calls)
    ELSE IF ~parsed.Valid THEN NoSession(ErrInvalidToken, parsed.calls)
    ELSE IF parsed.Method \notin SigningMethodHMAC
         THEN NoSession(ErrInvalidToken, parsed.calls)
    ELSE LET id == parsed.claims[1].TokenID
             f == Find(ts, id)
             calls == parsed.calls \o << <<"tokenStore.Find", id>> >>
         IN  IF f.err # None
             THEN [session |-> Some([Principal |-> parsed.principal[1],
                                     Metadata |-> [TokenType |-> parsed.claims[1].TokenType,
                                                   TokenID |-> id,
                                                   Grants |-> "read"]]),
                   err |-> Some(ErrTokenNotFound(f.err[1])), calls |-> calls]
             ELSE [session |-> Some([Principal |-> parsed.principal[1],
                                     Metadata |-> [TokenType |-> f.v[1].Type,
                                                   TokenID |-> f.v[1].ID,
                                                   Grants |-> f.v[1].Grants]]),
                   err |-> None, calls |-> calls]

\* a run that looks the token record up as soon as the claim set is decoded,
\* before it looks at the outcome of the parse
sessionOfLookupFirst(parsed, ts) ==
    IF parsed.claims = None THEN NoSession(parsed.err[1], parsed.calls)
    ELSE LET id == parsed.claims[1].TokenID
             f == Find(ts, id)
             calls == parsed.calls \o << <<"tokenStore.Find", id>> >>
         IN  IF parsed.err # None THEN NoSession(parsed.err[1], calls)
             ELSE IF ~parsed.Valid THEN NoSession(ErrInvalidToken, calls)
             ELSE IF parsed.Method \notin SigningMethodHMAC
                  THEN NoSession(ErrInvalidToken, calls)
             ELSE IF f.err # None THEN NoSession(ErrTokenNotFound(f.err[1]), calls)
             ELSE [session |-> Some([Principal |-> parsed.principal[1],
                                     Metadata |-> [TokenType |-> f.v[1].Type,
                                                   TokenID |-> f.v[1].ID,
                                                   Grants |-> f.v[1].Grants]]),
                   err |-> None, calls |-> calls]

sessionOf(parsed, ts) ==
    IF parsed.err # None THEN NoSession(parsed.err[1], parsed.calls)
    ELSE IF ~parsed.Valid THEN NoSession(ErrInvalidToken, parsed.calls)
    ELSE IF parsed.Method \notin SigningMethodHMAC
         THEN NoSession(ErrInvalidToken, parsed.calls)
    ELSE LET id == parsed.claims[1].TokenID
             f == Find(ts, id)
             calls == parsed.calls \o << <<"tokenStore.Find", id>> >>
         IN  IF f.err # None THEN NoSession(ErrTokenNotFound(f.err[1]), calls)
             ELSE [session |-> Some([Principal |-> parsed.principal[1],
                                     Metadata |-> [TokenType |-> f.v[1].Type,
                                                   TokenID |-> f.v[1].ID,
                                                   Grants |-> f.v[1].Grants]]),
                   err |-> None, calls |-> calls]

\* an authenticator that decodes the credential without verifying it
AuthenticateUnverified(r, us, ss, ts) ==
    LET str == extractToken(r) IN
    IF Len(str) = 0 THEN NoSession(ErrNoAuthData, <<>>)
    ELSE LET p == ParseWithClaimsSkipVerify(str, us, ss) IN
         IF p.err # None THEN NoSession(p.err[1], p.calls)
         ELSE LET f == Find(ts, p.claims[1].TokenID) IN
              IF f.err # None THEN NoSession(ErrTokenNotFound(f.err[1]), p.calls)
              ELSE [session |-> Some([Principal |-> p.principal[1],
                                      Metadata |-> [TokenType |-> f.v[1].Type,
                                                    TokenID |-> f.v[1].ID,
                                                    Grants |-> f.v[1].Grants]]),
                    err |-> None, calls |-> p.calls]

\* an authenticator that hands an empty credential to the parser
AuthenticateNoEmptyCheck(r, us, ss, ts) ==
    sessionOf(ParseWithClaims(extractToken(r), us, ss), ts)

Authenticate(r, us, ss, ts) ==
    LET str == extractToken(r) IN
    IF Len(str) = 0 THEN NoSession(ErrNoAuthData, <<>>)
    ELSE sessionOf(ParseWithClaims(str, us, ss), ts)

(***************************************************************************)
(* The git hook bridge (internal/githook/cli.go).                          *)
(*                                                                         *)
(* Standard input is a sequence of characters that ends with end of file   *)
(* or with a read error.                                                   *)
(***************************************************************************)
MaxStdin == 7
MaxUpdates == 2

SP == " "
LF == "\n"
Chars == {"a", SP, LF}

ErrRead == <<"read error">>
ErrEmptyLine == <<"ref data from stdin contains empty line - not expected">>
ErrInvalidFormat(fields) ==
    <<"received invalid data format or didn't receive enough parameters - ">> \o fields
ErrReadRefs(inner) == <<"failed to read updated references from std in: ">> \o inner
ErrCallingServer(inner) == <<"an error occured when calling the server: ">> \o inner
ErrEmptyOutput == <<"the server returned an empty output">>

\* the index of the first c in str, 0 when there is none
RECURSIVE IndexFrom(_, _, _)
IndexFrom(str, c, i) ==
    IF i > Len(str) THEN 0
    ELSE IF str[i] = c THEN i ELSE IndexFrom(str, c, i + 1)
Index(str, c) == IndexFrom(str, c, 1)

\* bufio.Reader.ReadString: the data up to and including the first delim; when
\* the stream ends before a delim, the data read so far and the stream's error
ReadString(in, delim) ==
    LET i == Index(in.data, delim) IN
    IF i > 0
    THEN [line |-> SubSeq(in.data, 1, i), err |-> "",
          rest |-> [in EXCEPT !.data = SubSeq(in.data, i + 1, Len(in.data))]]
    ELSE [line |-> in.data, err |-> in.end, rest |-> [in EXCEPT !.data = <<>>]]

\* strings.Split: the pieces of str between the occurrences of sep
RECURSIVE Split(_, _)
Split(str, sep) ==
    LET i == Index(str, sep) IN
    IF i = 0 THEN <<str>>
    ELSE <<SubSeq(str, 1, i - 1)>> \o Split(SubSeq(str, i + 1, Len(str)), sep)

\* the text of %v on a slice of strings: the pieces, spaces between, in brackets
RECURSIVE JoinFields(_)
JoinFields(fields) ==
    IF Len(fields) = 0 THEN <<>>
    ELSE IF Len(fields) = 1 THEN fields[1]
    ELSE fields[1] \o <<SP>> \o JoinFields(Tail(fields))
FormatSlice(fields) == <<"[">> \o JoinFields(fields) \o <<"]">>

\* an update built with the object ids the other way round
ReferenceUpdateSwapped(old, new, ref) == [Old |-> new, New |-> old, Ref |-> ref]

ReferenceUpdate(old, new, ref) == [Old |-> old, New |-> new, Ref |-> ref]

\* a loop that takes the first three fields of any line that has at least three
RECURSIVE readLoopLenient(_, _)
readLoopLenient(in, updatedRefs) ==
    LET rs == ReadString(in, LF) IN
    IF rs.err = "EOF" THEN [refs |-> Some(updatedRefs), err |-> None]
    ELSE IF rs.err # "" THEN [refs |-> None, err |-> Some(ErrRead)]
    ELSE IF Len(rs.line) = 0 THEN [refs |-> None, err |-> Some(ErrEmptyLine)]
    ELSE LET splitGitHookData == Split(SubSeq(rs.line, 1, Len(rs.line) - 1), SP) IN
         IF Len(splitGitHookData) < 3
         THEN [refs |-> None, err |-> Some(ErrInvalidFormat(FormatSlice(splitGitHookData)))]
         ELSE readLoopLenient(rs.rest,
                              Append(updatedRefs,
                                     [Old |-> splitGitHookData[1], New |-> splitGitHookData[2],
                                      Ref |-> splitGitHookData[3]]))

\* a loop that takes what follows the last line feed for a last line
RECURSIVE readLoopKeepTail(_, _)
readLoopKeepTail(in, updatedRefs) ==
    LET rs == ReadString(in, LF) IN
    IF rs.err = "EOF"
    THEN (IF Len(rs.line) > 0 /\ Len(Split(rs.line, SP)) = 3
          THEN [refs |-> Some(Append(updatedRefs,
                                     ReferenceUpdate(Split(rs.line, SP)[1],
                                                     Split(rs.line, SP)[2],
                                                     Split(rs.line, SP)[3]))),
                err |-> None]
          ELSE [refs |-> Some(updatedRefs), err |-> None])
    ELSE IF rs.err # "" THEN [refs |-> None, err |-> Some(ErrRead)]
    ELSE IF Len(rs.line) = 0 THEN [refs |-> None, err |-> Some(ErrEmptyLine)]
    ELSE LET splitGitHookData == Split(SubSeq(rs.line, 1, Len(rs.line) - 1), SP) IN
         IF Len(splitGitHookData) # 3
         THEN [refs |-> None, err |-> Some(ErrInvalidFormat(FormatSlice(splitGitHookData)))]
         ELSE readLoopKeepTail(rs.rest,
                               Append(updatedRefs,
                                      ReferenceUpdate(splitGitHookData[1], splitGitHookData[2],
                                                      splitGitHookData[3])))

\* the loop of getUpdatedReferencesFromStdIn, with the updates read so far
RECURSIVE readLoop(_, _)
readLoop(in, updatedRefs) ==
    LET rs == ReadString(in, LF) IN
    IF rs.err = "EOF" THEN [refs |-> Some(updatedRefs), err |-> None]
    ELSE IF rs.err # "" THEN [refs |-> None, err |-> Some(ErrRead)]
    ELSE IF Len(rs.line) = 0 THEN [refs |-> None, err |-> Some(ErrEmptyLine)]
    ELSE LET splitGitHookData == Split(SubSeq(rs.line, 1, Len(rs.line) - 1), SP) IN
         IF Len(splitGitHookData) # 3
         THEN [refs |-> None, err |-> Some(ErrInvalidFormat(FormatSlice(splitGitHookData)))]
         ELSE readLoop(rs.rest,
                       Append(updatedRefs,
                              ReferenceUpdate(splitGitHookData[1], splitGitHookData[2],
                                              splitGitHookData[3])))

getUpdatedReferencesFromStdIn(in) == readLoop(in, <<>>)

\* an interpreter that takes an empty rejection message for no message
handleServerHookOutputEmptyAllows(out, err) ==
    IF err # None THEN Some(ErrCallingServer(err[1]))
    ELSE IF out = None THEN Some(ErrEmptyOutput)
    ELSE IF out[1].Error # None /\ out[1].Error[1] # <<>> THEN Some(out[1].Error[1])
    ELSE None

\* an interpreter that puts its own words before the rejection message
handleServerHookOutputWrapped(out, err) ==
    IF err # None THEN Some(ErrCallingServer(err[1]))
    ELSE IF out = None THEN Some(ErrEmptyOutput)
    ELSE IF out[1].Error # None THEN Some(<<"push rejected: ">> \o out[1].Error[1])
    ELSE None

\* an interpreter that returns the client's error as it came
handleServerHookOutputBareError(out, err) ==
    IF err # None THEN Some(err[1])
    ELSE IF out = None THEN Some(ErrEmptyOutput)
    ELSE IF out[1].Error # None THEN Some(out[1].Error[1])
    ELSE None

handleServerHookOutput(out, err) ==
    IF err # None THEN Some(ErrCallingServer(err[1]))
    ELSE IF out = None THEN Some(ErrEmptyOutput)
    ELSE IF out[1].Error # None THEN Some(out[1].Error[1])
    ELSE None

\* the identifiers the serving process hands to the hook process
Payload == [RepoID |-> 1, PrincipalID |-> 1]

\* what the client returns for a call to the serving process: an output with an
\* optional rejection message, a transport error, either or neither
\* the message is any text the serving process chooses: the words of a
\* transport failure among them
TransportErrors == {<<"connection refused">>}
Messages ==
    {<<>>, <<"branch main is protected">>}
        \cup TransportErrors \cup {ErrCallingServer(e) : e \in TransportErrors}
ServerHookOutputs == {[Error |-> None]} \cup {[Error |-> Some(m)] : m \in Messages}
RemoteResults ==
    [out : {None} \cup {Some(o) : o \in ServerHookOutputs},
     err : {None} \cup {Some(e) : e \in TransportErrors}]

\* one call of the client: the operation, its input, and what came back
Call(op, in, remote) == [op |-> op, in |-> in, out |-> remote.out, err |-> remote.err]

\* The run of a hook is the updates it parsed (nil for the update hook and
\* after a failed parse), the calls it issued, and the error it returned.

\* a pre-receive hook that calls the serving process before it reads its input
PreReceiveCallFirst(stdin, remote) ==
    LET p == getUpdatedReferencesFromStdIn(stdin)
        in == [RepoID |-> Payload.RepoID, PrincipalID |-> Payload.PrincipalID,
               RefUpdates |-> IF p.err # None THEN <<>> ELSE p.refs[1]]
    IN  IF p.err # None
        THEN [refUpdates |-> None, calls |-> <<Call("PreReceive", in, remote)>>,
              ret |-> Some(ErrReadRefs(p.err[1]))]
        ELSE [refUpdates |-> p.refs, calls |-> <<Call("PreReceive", in, remote)>>,
              ret |-> handleServerHookOutput(remote.out, remote.err)]

PreReceive(stdin, remote) ==
    LET p == getUpdatedReferencesFromStdIn(stdin) IN
    IF p.err # None
    THEN [refUpdates |-> None, calls |-> <<>>, ret |-> Some(ErrReadRefs(p.err[1]))]
    ELSE LET in == [RepoID |-> Payload.RepoID, PrincipalID |-> Payload.PrincipalID,
                    RefUpdates |-> p.refs[1]]
         IN  [refUpdates |-> p.refs, calls |-> <<Call("PreReceive", in, remote)>>,
              ret |-> handleServerHookOutput(remote.out, remote.err)]

\* an update hook that calls the serving process again after a transport error
UpdateWithRetry(ref, oldSHA, newSHA, remote) ==
    LET in == [RepoID |-> Payload.RepoID, PrincipalID |-> Payload.PrincipalID,
               RefUpdate |-> ReferenceUpdate(oldSHA, newSHA, ref)]
    IN  [refUpdates |-> None,
         calls |-> IF remote.err # None
                   THEN <<Call("Update", in, remote), Call("Update", in, remote)>>
                   ELSE <<Call("Update", in, remote)>>,
         ret |-> handleServerHookOutput(remote.out, remote.err)]

Update(ref, oldSHA, newSHA, remote) ==
    LET in == [RepoID |-> Payload.RepoID, PrincipalID |-> Payload.PrincipalID,
               RefUpdate |-> ReferenceUpdate(oldSHA, newSHA, ref)]
    IN  [refUpdates |-> None, calls |-> <<Call("Update", in, remote)>>,
         ret |-> handleServerHookOutput(remote.out, remote.err)]

PostReceive(stdin, remote) ==
    LET p == getUpdatedReferencesFromStdIn(stdin) IN
    IF p.err # None
    THEN [refUpdates |-> None, calls |-> <<>>, ret |-> Some(ErrReadRefs(p.err[1]))]
    ELSE LET in == [RepoID |-> Payload.RepoID, PrincipalID |-> Payload.PrincipalID,
                    RefUpdates |-> p.refs[1]]
         IN  [refUpdates |-> p.refs, calls |-> <<Call("PostReceive", in, remote)>>,
              ret |-> handleServerHookOutput(remote.out, remote.err)]

\* the streams git can leave on standard input, and the arguments of the
\* update hook
Stdins ==
    [data : UNION {[1..n -> Chars] : n \in 0..MaxStdin}, end : {"EOF", "error"}]
ArgValues == {<<>>, <<"a">>}

\* the line protocol git writes: "<old> SP <new> SP <ref> LF" for each update
RECURSIVE Encode(_)
Encode(updates) ==
    IF Len(updates) = 0 THEN <<>>
    ELSE updates[1].Old \o <<SP>> \o updates[1].New \o <<SP>> \o updates[1].Ref \o <<LF>>
             \o Encode(Tail(updates))

\* the updates the round trip is run on: any text can be put in a field
FieldValues == {<<>>, <<"a">>, <<SP>>, <<LF>>}
Triples == [Old : FieldValues, New : FieldValues, Ref : FieldValues]
UpdateSeqs == UNION {[1..n -> Triples] : n \in 0..MaxUpdates}

(***************************************************************************)
(* Requests the authenticator is run on.                                   *)
(***************************************************************************)
Request(authorization, form) == [Authorization |-> authorization, access_token |-> form]

\* every token string presented in a Bearer header
BearerRequests == {Request(<<Lit("Bearer ")>> \o str, <<>>) : str \in TokenStrings}

\* a few token strings presented in the other ways a request can carry one:
\* the form value, the IdentityService prefix, no prefix, Basic credentials,
\* and headers that yield no credential while the form value holds one
SampleClaims == [PrincipalID |-> 1, TokenType |-> TokenTypePAT, TokenID |-> 1]
SampleTokenStrings ==
    {<<Lit("garbage")>>, <<JWT("HS256", SampleClaims, HMAC("HS256", SampleClaims, Salt(1, 0)))>>}
OtherRequests ==
    UNION {{Request(<<>>, str),
            Request(<<Lit("IdentityService ")>> \o str, <<>>),
            Request(<<Lit("Bearer "), Lit("IdentityService ")>> \o str, <<>>),
            Request(str, <<>>),
            Request(<<Lit("Basic"), Lit(" "), B64("git", str)>>, <<>>),
            Request(<<Lit("Basic"), Lit(" "), Lit("junk")>>, str),
            Request(<<Lit("Bearer ")>>, str)} : str \in SampleTokenStrings}
        \cup {Request(<<>>, <<>>)}
        \* a token string in the header and another, or the same, in the form
        \cup {Request(<<Lit("Bearer ")>> \o str, form) :
                 str \in SampleTokenStrings, form \in SampleTokenStrings}

\* Basic credentials: the scheme in either case, two usernames, and for the
\* password a token string, nothing, or a token string behind a scheme prefix
PasswordStrings ==
    SampleTokenStrings \cup {<<>>}
        \cup {<<Lit("IdentityService ")>> \o str : str \in SampleTokenStrings}
        \cup {<<Lit("Bearer ")>> \o str : str \in SampleTokenStrings}
BasicRequests ==
    {Request(<<Lit(scheme), Lit(" "), B64(user, pass)>>, <<>>) :
        scheme \in {"Basic", "basic"}, user \in {"", "git"}, pass \in PasswordStrings}

Requests == BearerRequests \cup OtherRequests \cup BasicRequests

(***************************************************************************)
(* State: the three stores, the next token id the token store hands out,   *)
(* the ids of the token records deleted so far, and the request and result *)
(* of the Authenticate call that has just returned (None otherwise).       *)
(***************************************************************************)
User(id, v) == [ID |-> id, Salt |-> Salt(id, v)]
TokenRecord(id, pid, tt, grants) ==
    [ID |-> id, PrincipalID |-> pid, Type |-> tt, Grants |-> grants]

Init ==
    /\ userStore = [id \in UserIDs |-> User(id, 0)]
    /\ saStore = [id \in ServiceAccountIDs |-> User(id, 0)]
    /\ tokenStore = <<>>
    /\ nextTokenID = 1
    /\ revoked = {}
    /\ last = None
    /\ hook = None
    /\ codec = None
    /\ fileViewStore = {}
    /\ fileView = None

\* a token is issued to a stored principal, with a class of that principal's kind
IssueToken ==
    /\ last = None
    /\ nextTokenID <= MaxTokens
    /\ \E pid \in PrincipalIDs, tt \in TokenTypes, grants \in GrantSets :
          /\ \/ pid \in DOMAIN userStore
                /\ tt \in {TokenTypePAT, TokenTypeSession, TokenTypeOAuth2}
             \/ pid \in DOMAIN saStore /\ tt = TokenTypeSAT
          /\ tokenStore' = [id \in DOMAIN tokenStore \cup {nextTokenID} |->
                              IF id = nextTokenID
                              THEN TokenRecord(id, pid, tt, grants)
                              ELSE tokenStore[id]]
    /\ nextTokenID' = nextTokenID + 1
    /\ UNCHANGED <<userStore, saStore, revoked, last, hook, codec, fileViewStore, fileView>>

\* a token record is deleted: revoked, or expired and cleaned up
DeleteToken ==
    /\ last = None
    /\ \E id \in DOMAIN tokenStore :
          /\ tokenStore' = [i \in DOMAIN tokenStore \ {id} |-> tokenStore[i]]
          /\ revoked' = revoked \cup {id}
    /\ UNCHANGED <<userStore, saStore, nextTokenID, last, hook, codec, fileViewStore, fileView>>

\* a principal's secret is replaced by a fresh one
RotateUserSalt ==
    /\ last = None
    /\ \E pid \in DOMAIN userStore :
          /\ userStore[pid].Salt[2] < MaxRotations
          /\ userStore' = [userStore EXCEPT ![pid].Salt = Salt(pid, @[2] + 1)]
    /\ UNCHANGED <<saStore, tokenStore, nextTokenID, revoked, last, hook, codec, fileViewStore, fileView>>

RotateServiceAccountSalt ==
    /\ last = None
    /\ \E pid \in DOMAIN saStore :
          /\ saStore[pid].Salt[2] < MaxRotations
          /\ saStore' = [saStore EXCEPT ![pid].Salt = Salt(pid, @[2] + 1)]
    /\ UNCHANGED <<userStore, tokenStore, nextTokenID, revoked, last, hook, codec, fileViewStore, fileView>>

\* one run of TokenAuthenticator.Authenticate, once the previous run's result
\* has been handed to its caller
DoAuthenticate ==
    /\ last = None
    /\ \E r \in Requests :
          last' = Some([r |-> r, res |-> Authenticate(r, userStore, saStore, tokenStore)])
    /\ UNCHANGED <<userStore, saStore, tokenStore, nextTokenID, revoked, hook, codec, fileViewStore, fileView>>

\* the session is request-scoped: it is dropped when the request ends
EndRequest ==
    /\ last # None
    /\ last' = None
    /\ UNCHANGED <<userStore, saStore, tokenStore, nextTokenID, revoked, hook, codec, fileViewStore, fileView>>

Next ==
    \/ IssueToken
    \/ DeleteToken
    \/ RotateUserSalt
    \/ RotateServiceAccountSalt
    \/ DoAuthenticate
    \/ EndRequest

Spec == Init /\ [][Next]_vars

(***************************************************************************)
(* The hook process: git starts it for one hook, it runs the hook to its   *)
(* end and exits.                                                          *)
(***************************************************************************)
AuthUnchanged == UNCHANGED <<userStore, saStore, tokenStore, nextTokenID, revoked, last>>

DoPreReceive ==
    /\ hook = None
    /\ \E stdin \in Stdins, remote \in RemoteResults :
          hook' = Some([kind |-> "PreReceive", stdin |-> Some(stdin), args |-> None,
                        run |-> PreReceive(stdin, remote)])
    /\ AuthUnchanged /\ UNCHANGED <<codec, fileViewStore, fileView>>

DoPostReceive ==
    /\ hook = None
    /\ \E stdin \in Stdins, remote \in RemoteResults :
          hook' = Some([kind |-> "PostReceive", stdin |-> Some(stdin), args |-> None,
                        run |-> PostReceive(stdin, remote)])
    /\ AuthUnchanged /\ UNCHANGED <<codec, fileViewStore, fileView>>

DoUpdate ==
    /\ hook = None
    /\ \E ref \in ArgValues, oldSHA \in ArgValues, newSHA \in ArgValues,
          remote \in RemoteResults :
          hook' = Some([kind |-> "Update", stdin |-> None,
                        args |-> Some([ref |-> ref, oldSHA |-> oldSHA, newSHA |-> newSHA]),
                        run |-> Update(ref, oldSHA, newSHA, remote)])
    /\ AuthUnchanged /\ UNCHANGED <<codec, fileViewStore, fileView>>

\* the process exits with the error the hook returned
Exit ==
    /\ hook # None
    /\ hook' = None
    /\ AuthUnchanged /\ UNCHANGED <<codec, fileViewStore, fileView>>

NextHook == DoPreReceive \/ DoPostReceive \/ DoUpdate \/ Exit

SpecHook == Init /\ [][NextHook]_vars

(***************************************************************************)
(* The line protocol, there and back: a sequence of updates is written as  *)
(* git writes it and read by getUpdatedReferencesFromStdIn.                *)
(***************************************************************************)
RoundTrip ==
    /\ codec = None
    /\ \E updates \in UpdateSeqs :
          codec' = Some([updates |-> updates,
                         parsed |-> getUpdatedReferencesFromStdIn(
                                        [data |-> Encode(updates), end |-> "EOF"])])
    /\ AuthUnchanged /\ UNCHANGED <<hook, fileViewStore, fileView>>

NextCodec == RoundTrip

SpecCodec == Init /\ [][NextCodec]_vars

(***************************************************************************)
(* Controller.FileViewAdd (internal/api/controller/pullreq): a reviewer    *)
(* marks a file of a pull request as viewed.  The repository, the pull     *)
(* request store, the git service and the file-view store are what the     *)
(* controller calls; the file-view store is a set of records, one for each *)
(* pull request, principal and path.                                       *)
(***************************************************************************)
MaxTime == 1

NilSHA == "0000000000000000000000000000000000000000"
\* the object ids git can report for a tree node: never the nil id
NodeSHAs == {"s1", "s2"}

TreeNodeTypeBlob == "blob"
TreeNodeTypeCommit == "commit"
TreeNodeTypeTree == "tree"
TreeNodeTypes == {TreeNodeTypeBlob, TreeNodeTypeCommit, TreeNodeTypeTree}

StatusPathNotFound == "path not found"
StatusInternal == "internal"

\* what the caller can send: a path, empty or not, and a commit id, well
\* formed or not
Paths == {"", "f"}
CommitSHAs == {"c1", "zz"}
FileViewAddInputs == [Path : Paths, CommitSHA : CommitSHAs]
\* gitrpc.ValidateCommitSHA: the text is a commit id
ValidateCommitSHA(sha) == sha \in {"c0", "c1"}

ErrPathEmpty == <<"path can't be empty">>
ErrCommitSHAInvalid == <<"commit_sha is invalid">>
ErrNotAuthorized == <<"not authorized">>
ErrDB == <<"db error">>
ErrAcquireAccess(inner) == <<"failed to acquire access to repo: ">> \o inner
ErrFindPullReq(inner) == <<"failed to find pull request by number: ">> \o inner
ErrTreeNodeProvided(path, sha, status) ==
    <<"failed to get tree node '", path, "' for provided sha '", sha, "' from gitrpc: ", status>>
ErrTreeNodeMergeBase(path, sha, status) ==
    <<"failed to get tree node '", path, "' for MergeBaseSHA '", sha, "' from gitrpc: ", status>>
ErrNotAFile(path) == <<"Provided path '", path, "' doesn't point to a file.">>
ErrNeitherFound(path, base, sha) ==
    <<"File '", path, "' neither found for merge-base '", base, "' nor for provided sha '",
      sha, "'.">>
ErrNotChanged(path, base, sha) ==
    <<"File '", path, "' is not part of changes between merge-base '", base,
      "' and provided sha '", sha, "'.">>
ErrUpsert(inner) == <<"failed to upsert file view information in db: ">> \o inner

Validate(in) ==
    IF in.Path = "" THEN Some(ErrPathEmpty)
    ELSE IF ~ValidateCommitSHA(in.CommitSHA) THEN Some(ErrCommitSHAInvalid)
    ELSE None

\* the sessions a call comes with, and the principals that may view the
\* repository
Session(pid) == [Principal |-> [ID |-> pid]]
Sessions == {Session(pid) : pid \in PrincipalIDs}
Viewers == {1, 2}
RepoRefs == {"r", "x"}
Repos == {[ID |-> 1, Path |-> "r"]}
\* Controller.getRepoCheckAccess: the repository of that reference, when the
\* session's principal may view it
getRepoCheckAccess(session, repoRef) ==
    LET found == {repo \in Repos : repo.Path = repoRef} IN
    IF found = {} THEN [repo |-> None, err |-> Some(ErrResourceNotFound)]
    ELSE IF session.Principal.ID \notin Viewers
         THEN [repo |-> None, err |-> Some(ErrNotAuthorized)]
         ELSE [repo |-> Some(CHOOSE repo \in found : TRUE), err |-> None]

PullReqNumbers == {1, 2}
PullReqs == {[ID |-> 1, RepoID |-> 1, Number |-> 1, MergeBaseSHA |-> "c0"]}
\* pullreqStore.FindByNumber
FindByNumber(repoID, prNum) ==
    LET found == {pr \in PullReqs : pr.RepoID = repoID /\ pr.Number = prNum} IN
    IF found = {} THEN [pr |-> None, err |-> Some(ErrResourceNotFound)]
    ELSE [pr |-> Some(CHOOSE pr \in found : TRUE), err |-> None]

\* what gitRPCClient.GetTreeNode returns: a node, or an error whose status is
\* path-not-found or another
TreeNode(type, sha) == [Type |-> type, SHA |-> sha]
GetTreeNodeResults ==
    {[node |-> Some(TreeNode(type, sha)), err |-> None] :
        type \in TreeNodeTypes, sha \in NodeSHAs}
        \cup {[node |-> None, err |-> Some(status)] :
                 status \in {StatusPathNotFound, StatusInternal}}

PullReqFileView(pr, session, in, sha, now) ==
    [PullReqID |-> pr.ID, PrincipalID |-> session.Principal.ID,
     Path |-> in.Path, SHA |-> sha, Obsolete |-> FALSE,
     Created |-> now, Updated |-> now]
\* fileViewStore.Upsert: the record takes the place of the one for the same
\* pull request, principal and path
Upsert(store, fv) ==
    {old \in store : ~(/\ old.PullReqID = fv.PullReqID
                        /\ old.PrincipalID = fv.PrincipalID
                        /\ old.Path = fv.Path)} \cup {fv}

\* a check that only asks for the path to be found at one of the two commits
checkNodesEitherFound(inNode, mergeBaseNode, in, pr) ==
    IF inNode = None /\ mergeBaseNode = None
    THEN Some(ErrNeitherFound(in.Path, pr.MergeBaseSHA, in.CommitSHA))
    ELSE None

\* lines 107-122: the file is at neither commit, or it is the same at both
checkNodes(inNode, mergeBaseNode, in, pr) ==
    IF inNode = None /\ mergeBaseNode = None
    THEN Some(ErrNeitherFound(in.Path, pr.MergeBaseSHA, in.CommitSHA))
    ELSE IF inNode # None /\ mergeBaseNode # None /\ inNode[1].SHA = mergeBaseNode[1].SHA
         THEN Some(ErrNotChanged(in.Path, pr.MergeBaseSHA, in.CommitSHA))
         ELSE None

\* a run that ends in an error: what was called, the nodes read, the store
FailedRun(err, calls, inNode, mergeBaseNode, store) ==
    [fileView |-> None, err |-> Some(err), calls |-> calls,
     inNode |-> inNode, mergeBaseNode |-> mergeBaseNode, store |-> store]

\* lines 124-153, once both nodes are read and checked
upsertFileView(session, in, pr, inNode, mergeBaseNode, calls, store, upsertErr, now) ==
    LET sha == IF inNode # None THEN inNode[1].SHA ELSE NilSHA
        fv == PullReqFileView(pr, session, in, sha, now)
    IN  IF upsertErr # None
        THEN FailedRun(ErrUpsert(upsertErr[1]), calls \o << <<"Upsert", "error">> >>,
                       inNode, mergeBaseNode, store)
        ELSE [fileView |-> Some(fv), err |-> None,
              calls |-> calls \o << <<"Upsert", "ok">> >>,
              inNode |-> inNode, mergeBaseNode |-> mergeBaseNode,
              store |-> Upsert(store, fv)]

\* lines 65-122, once the repository and the pull request are at hand
readNodes(session, in, pr, calls, store, inRes, mergeBaseRes, upsertErr, now) ==
    IF inRes.err # None /\ inRes.err[1] # StatusPathNotFound
    THEN FailedRun(ErrTreeNodeProvided(in.Path, in.CommitSHA, inRes.err[1]),
                   calls \o << <<"GetTreeNode provided", "error">> >>, None, None, store)
    ELSE LET inNode == inRes.node
             calls1 == calls \o << <<"GetTreeNode provided",
                                      IF inNode # None THEN "found" ELSE "absent">> >>
         IN
         IF inNode # None /\ inNode[1].Type # TreeNodeTypeBlob
               /\ inNode[1].Type # TreeNodeTypeCommit
         THEN FailedRun(ErrNotAFile(in.Path), calls1, inNode, None, store)
         ELSE IF mergeBaseRes.err # None /\ mergeBaseRes.err[1] # StatusPathNotFound
         THEN FailedRun(ErrTreeNodeMergeBase(in.Path, pr.MergeBaseSHA, mergeBaseRes.err[1]),
                        calls1 \o << <<"GetTreeNode merge base", "error">> >>,
                        inNode, None, store)
         ELSE LET mergeBaseNode == mergeBaseRes.node
                  calls2 == calls1 \o << <<"GetTreeNode merge base",
                                            IF mergeBaseNode # None THEN "found"
                                            ELSE "absent">> >>
                  check == checkNodes(inNode, mergeBaseNode, in, pr)
              IN  IF check # None
                  THEN FailedRun(check[1], calls2, inNode, mergeBaseNode, store)
                  ELSE upsertFileView(session, in, pr, inNode, mergeBaseNode, calls2,
                                      store, upsertErr, now)

\* Controller.FileViewAdd.  inRes and mergeBaseRes are what the git service
\* answers for the path at the provided commit and at the merge base,
\* upsertErr is the error of the store's Upsert, now is the clock.
FileViewAdd(session, repoRef, prNum, in, store, inRes, mergeBaseRes, upsertErr, now) ==
    IF Validate(in) # None
    THEN FailedRun(Validate(in)[1], << <<"Validate", "error">> >>, None, None, store)
    ELSE LET access == getRepoCheckAccess(session, repoRef)
             calls1 == << <<"Validate", "ok">> >>
         IN
         IF access.err # None
         THEN FailedRun(ErrAcquireAccess(access.err[1]),
                        calls1 \o << <<"getRepoCheckAccess", "error">> >>, None, None, store)
         ELSE LET found == FindByNumber(access.repo[1].ID, prNum)
                  calls2 == calls1 \o << <<"getRepoCheckAccess", "ok">> >>
              IN
              IF found.err # None
              THEN FailedRun(ErrFindPullReq(found.err[1]),
                             calls2 \o << <<"FindByNumber", "error">> >>, None, None, store)
              ELSE readNodes(session, in, found.pr[1],
                             calls2 \o << <<"FindByNumber", "ok">> >>,
                             store, inRes, mergeBaseRes, upsertErr, now)

FileViewFrame ==
    UNCHANGED <<userStore, saStore, tokenStore, nextTokenID, revoked, last, hook, codec>>

\* one call of FileViewAdd, once the previous call has returned to its caller
DoFileViewAdd ==
    /\ fileView = None
    /\ \E session \in Sessions, repoRef \in RepoRefs, prNum \in PullReqNumbers,
          in \in FileViewAddInputs, inRes \in GetTreeNodeResults,
          mergeBaseRes \in GetTreeNodeResults, upsertErr \in {None, Some(ErrDB)},
          now \in 1..MaxTime :
          LET run == FileViewAdd(session, repoRef, prNum, in, fileViewStore,
                                 inRes, mergeBaseRes, upsertErr, now)
          IN  /\ fileView' = Some([session |-> session, repoRef |-> repoRef,
                                    prNum |-> prNum, in |-> in, before |-> fileViewStore,
                                    run |-> run])
              /\ fileViewStore' = run.store
    /\ FileViewFrame

\* the call's result has been handed to its caller
ReturnFileView ==
    /\ fileView # None
    /\ fileView' = None
    /\ UNCHANGED fileViewStore
    /\ FileViewFrame

NextFileView == DoFileViewAdd \/ ReturnFileView

SpecFileView == Init /\ [][NextFileView]_vars

(***************************************************************************)
(* Properties of the token authenticator.                                  *)
(***************************************************************************)
\* the credential of the run that has just returned, when it is a JWT
LastIsJWT ==
    /\ last # None
    /\ Len(extractToken(last[1].r)) = 1
    /\ extractToken(last[1].r)[1].t = "jwt"
LastJWT == extractToken(last[1].r)[1]
LastRes == last[1].res

UserClasses == {TokenTypePAT, TokenTypeSession, TokenTypeOAuth2}
SupportedClasses == UserClasses \cup {TokenTypeSAT}

\* the claim set names a stored principal through a class of its kind
NamesStoredPrincipal(c) ==
    \/ c.TokenType \in UserClasses /\ c.PrincipalID \in DOMAIN userStore
    \/ c.TokenType = TokenTypeSAT /\ c.PrincipalID \in DOMAIN saStore
\* that principal, as the session carries it
StoredPrincipal(c) ==
    IF c.TokenType = TokenTypeSAT
    THEN [ID |-> c.PrincipalID, Type |-> "serviceaccount", Salt |-> saStore[c.PrincipalID].Salt]
    ELSE [ID |-> c.PrincipalID, Type |-> "user", Salt |-> userStore[c.PrincipalID].Salt]
\* structurally valid and signed with a keyed hash under the current secret
\* of the principal it names
CorrectlySigned(j) ==
    /\ j.alg \in SigningMethodHMAC
    /\ NamesStoredPrincipal(j.claims)
    /\ j.sig = HMAC(j.alg, j.claims, StoredPrincipal(j.claims).Salt)
\* signed with a keyed hash under a secret the named principal had before a rotation
SignedWithOldSecret(j) ==
    /\ j.alg \in SigningMethodHMAC
    /\ NamesStoredPrincipal(j.claims)
    /\ \E v \in 0..MaxRotations :
          /\ v < StoredPrincipal(j.claims).Salt[2]
          /\ j.sig = HMAC(j.alg, j.claims, Salt(j.claims.PrincipalID, v))

\* C1: once the token record a credential names has been deleted, Authenticate
\* of that credential, correctly signed under the principal's current secret,
\* fails with the token-not-found error and returns no session.
C1_Revocation ==
    (LastIsJWT /\ CorrectlySigned(LastJWT) /\ LastJWT.claims.TokenID \in revoked)
        => /\ LastRes.session = None
           /\ LastRes.err = Some(ErrTokenNotFound(ErrResourceNotFound))
C1_Witness ==
    /\ LastIsJWT /\ CorrectlySigned(LastJWT) /\ LastJWT.claims.TokenID \in revoked
    /\ LastRes.err = Some(ErrTokenNotFound(ErrResourceNotFound))

\* C2: a credential naming principal P with a supported class, signed under
\* P's current secret, whose token id resolves to a stored token record, yields
\* a session with principal P and the stored record's class, id and grants.
C2_ValidCredentialYieldsSession ==
    (LastIsJWT /\ CorrectlySigned(LastJWT) /\ LastJWT.claims.TokenID \in DOMAIN tokenStore)
        => /\ LastRes.err = None
           /\ LastRes.session =
                Some([Principal |-> StoredPrincipal(LastJWT.claims),
                      Metadata |-> [TokenType |-> tokenStore[LastJWT.claims.TokenID].Type,
                                    TokenID |-> tokenStore[LastJWT.claims.TokenID].ID,
                                    Grants |-> tokenStore[LastJWT.claims.TokenID].Grants]])
\* a session for a credential whose claimed class differs from the stored one
C2_Witness ==
    /\ LastIsJWT /\ CorrectlySigned(LastJWT) /\ LastJWT.claims.TokenID \in DOMAIN tokenStore
    /\ LastRes.session # None
    /\ tokenStore[LastJWT.claims.TokenID].Type # LastJWT.claims.TokenType

\* the principals whose secret the step rotates
Rotated ==
    {p \in DOMAIN userStore : userStore'[p].Salt # userStore[p].Salt}
        \cup {p \in DOMAIN saStore : saStore'[p].Salt # saStore[p].Salt}
\* the principal id a request's credential names, if it names one
NamedPrincipal(r) ==
    LET str == extractToken(r) IN
    IF Len(str) = 1 /\ str[1].t = "jwt" THEN {str[1].claims.PrincipalID} ELSE {}
\* a rotation leaves the outcome of every credential of another principal as it was
RotationIsLocal ==
    (last = None /\ Rotated # {}) =>
        \A r \in Requests :
            (NamedPrincipal(r) \cap Rotated = {}) =>
                Authenticate(r, userStore', saStore', tokenStore')
                    = Authenticate(r, userStore, saStore, tokenStore)

\* C3, as claimed: a credential signed with the secret P had before a rotation
\* fails with the authenticator's invalid-token error and yields no session.
C3_OldSecretFailsWithInvalidToken ==
    (LastIsJWT /\ SignedWithOldSecret(LastJWT))
        => /\ LastRes.session = None
           /\ LastRes.err = Some(ErrInvalidToken)

\* a credential signed with the secret P had before a rotation yields no
\* session and fails with the error of the JWT library's signature check
OldSecretFails ==
    (LastIsJWT /\ SignedWithOldSecret(LastJWT))
        => /\ LastRes.session = None
           /\ LastRes.err = Some(ErrSignatureInvalid)
\* C3, as the code has it: a credential signed with the secret P had before a
\* rotation yields no session and fails with the error of the JWT library's
\* signature check, which Authenticate returns as it is; and rotating P's
\* secret never changes the outcome of a credential that names another
\* principal.
C3_SecretRotation == []OldSecretFails /\ [][RotationIsLocal]_vars
C3_Witness ==
    /\ LastIsJWT /\ SignedWithOldSecret(LastJWT)
    /\ LastJWT.claims.TokenID \in DOMAIN tokenStore
    /\ LastRes.err = Some(ErrSignatureInvalid)

\* C4: no session for a credential whose declared signing method is not a
\* keyed hash, whatever its signature, the secrets and the stores are.
C4_OnlyKeyedHashMethods ==
    (LastIsJWT /\ LastJWT.alg \notin SigningMethodHMAC) => LastRes.session = None
\* the unsigned method, on a stored principal and a stored token record
C4_Witness ==
    /\ LastIsJWT /\ LastJWT.alg = "none"
    /\ NamesStoredPrincipal(LastJWT.claims)
    /\ LastJWT.claims.TokenID \in DOMAIN tokenStore
    /\ LastRes.session = None

\* C5, as claimed: a credential whose claim set names a class outside the four
\* supported ones fails with the unsupported-token-type error, and no store
\* is looked up.
C5_UnknownClassUnsupportedNoLookup ==
    (LastIsJWT /\ LastJWT.claims.TokenType \notin SupportedClasses)
        => /\ LastRes.session = None
           /\ LastRes.err =
                Some(ErrGetPrincipal(ErrUnsupportedTokenType(LastJWT.claims.TokenType)))
           /\ LastRes.calls = <<>>

\* C5, as the code has it: such a credential yields no session and no store is
\* looked up; the failure is the unsupported-token-type error when the declared
\* signing method is one the JWT library knows, and the library's
\* method-unavailable error otherwise.
C5_UnknownClassNoLookup ==
    (LastIsJWT /\ LastJWT.claims.TokenType \notin SupportedClasses)
        => /\ LastRes.session = None
           /\ LastRes.calls = <<>>
           /\ LastRes.err =
                IF LastJWT.alg \in RegisteredMethods
                THEN Some(ErrGetPrincipal(ErrUnsupportedTokenType(LastJWT.claims.TokenType)))
                ELSE Some(ErrMethodUnavailable)
\* an unknown class naming a stored principal: the lookup would have found it
C5_Witness ==
    /\ LastIsJWT /\ LastJWT.claims.TokenType \notin SupportedClasses
    /\ LastJWT.alg \in SigningMethodHMAC
    /\ LastJWT.claims.PrincipalID \in DOMAIN userStore
    /\ LastRes.err =
         Some(ErrGetPrincipal(ErrUnsupportedTokenType(LastJWT.claims.TokenType)))

\* the request of the run that has just returned
LastReq == last[1].r

\* C13: a request with no Authorization header and no access_token form value
\* fails with the no-auth-data error before any lookup in a store, and no run
\* on a credential that was presented fails with that error.
C13_NoAuthData ==
    last # None =>
        /\ (LastReq.Authorization = <<>> /\ LastReq.access_token = <<>>)
              => /\ LastRes.session = None
                 /\ LastRes.err = Some(ErrNoAuthData)
                 /\ LastRes.calls = <<>>
        /\ extractToken(LastReq) # <<>> => LastRes.err # Some(ErrNoAuthData)
\* no credential at all, while the stores hold a principal and a token record
C13_Witness ==
    /\ last # None
    /\ LastReq.Authorization = <<>> /\ LastReq.access_token = <<>>
    /\ tokenStore # <<>>
    /\ LastRes.err = Some(ErrNoAuthData)

\* the run was on a header the library decodes as Basic credentials
BasicRun == last # None /\ BasicAuth(LastReq.Authorization).ok
BasicPassword == BasicAuth(LastReq.Authorization).password
\* the request that carries str behind the Bearer scheme
BearerOf(str) == Request(<<Lit("Bearer ")>> \o str, <<>>)
SameOutcome(a, b) == a.session = b.session /\ a.err = b.err

\* C14, as claimed: a request carrying t as the password of well-formed Basic
\* credentials, whatever the username, has the outcome of the request
\* carrying t in a Bearer header, for every token string t.
C14_BasicSameAsBearer ==
    BasicRun =>
        SameOutcome(LastRes,
                    Authenticate(BearerOf(BasicPassword), userStore, saStore, tokenStore))

\* C14, as the code has it: the two outcomes are the same when the scheme is
\* spelled "Basic" and t does not begin with "IdentityService ".
C14_BasicSameAsBearerForPlainTokens ==
    (BasicRun /\ HasPrefix(LastReq.Authorization, "Basic")
        /\ ~HasPrefix(BasicPassword, "IdentityService "))
        => SameOutcome(LastRes,
                       Authenticate(BearerOf(BasicPassword), userStore, saStore, tokenStore))
\* a session for a token presented as the password of Basic credentials
C14_Witness ==
    /\ BasicRun /\ HasPrefix(LastReq.Authorization, "Basic")
    /\ LastReq.Authorization[3].user = "git"
    /\ LastRes.session # None
    /\ LastRes.session =
         Authenticate(BearerOf(BasicPassword), userStore, saStore, tokenStore).session

\* the run returned a session without an error or an error without a session,
\* and a session holds a stored principal and the class, id and grants of a
\* stored token record
AllOrNothing ==
    last # None =>
        /\ (LastRes.session = None) <=> (LastRes.err # None)
        /\ LastRes.session # None =>
              LET sess == LastRes.session[1] IN
              /\ sess.Metadata.TokenID \in DOMAIN tokenStore
              /\ sess.Metadata =
                    [TokenType |-> tokenStore[sess.Metadata.TokenID].Type,
                     TokenID |-> tokenStore[sess.Metadata.TokenID].ID,
                     Grants |-> tokenStore[sess.Metadata.TokenID].Grants]
              /\ \/ /\ sess.Principal.ID \in DOMAIN userStore
                    /\ sess.Principal = PrincipalFromUser(userStore[sess.Principal.ID])
                 \/ /\ sess.Principal.ID \in DOMAIN saStore
                    /\ sess.Principal =
                         PrincipalFromServiceAccount(saStore[sess.Principal.ID])
\* a run of Authenticate leaves the three stores as they were
ReadOnly ==
    (last = None /\ last' # None) =>
        /\ userStore' = userStore
        /\ saStore' = saStore
        /\ tokenStore' = tokenStore

\* C15: every run of Authenticate returns either a complete session and no
\* error or an error and no session, never both and never a session without
\* a token record; and no run, successful or failing, changes the user store,
\* the service-account store or the token store.
C15_AllOrNothingReadOnly == []AllOrNothing /\ [][ReadOnly]_vars
\* a correctly signed credential whose token record is gone: an error, and
\* no session with the principal that was resolved
C15_Witness ==
    /\ LastIsJWT /\ CorrectlySigned(LastJWT)
    /\ LastJWT.claims.TokenID \notin DOMAIN tokenStore
    /\ LastRes.session = None /\ LastRes.err # None

PrincipalLookups == {"userStore.Find", "saStore.Find"}
\* the positions of the run's calls that are calls of one of ops
CallsOf(ops) == {i \in 1..Len(LastRes.calls) : LastRes.calls[i][1] \in ops}

\* C16: a run looks a principal up at most once, in the user store for a
\* user class and in the service-account store for the service-account class,
\* and the token record at most once; the principal lookup comes before the
\* signature verification, and the token-record lookup comes only after a
\* verification that succeeded: a credential whose signature fails causes no
\* lookup in the token store.
C16_LookupOrder ==
    last # None =>
        /\ Cardinality(CallsOf(PrincipalLookups)) <= 1
        /\ Cardinality(CallsOf({"tokenStore.Find"})) <= 1
        /\ Cardinality(CallsOf({"Verify"})) <= 1
        /\ \A i \in CallsOf({"userStore.Find"}) :
              /\ LastIsJWT /\ LastJWT.claims.TokenType \in UserClasses
              /\ LastRes.calls[i][2] = LastJWT.claims.PrincipalID
        /\ \A i \in CallsOf({"saStore.Find"}) :
              /\ LastIsJWT /\ LastJWT.claims.TokenType = TokenTypeSAT
              /\ LastRes.calls[i][2] = LastJWT.claims.PrincipalID
        /\ \A i \in CallsOf({"Verify"}) : \E j \in CallsOf(PrincipalLookups) : j < i
        /\ \A i \in CallsOf({"tokenStore.Find"}) :
              /\ \E j \in CallsOf({"Verify"}) : j < i
              /\ LastIsJWT /\ CorrectlySigned(LastJWT)
              /\ LastRes.calls[i][2] = LastJWT.claims.TokenID
\* a stored principal, a stored token record, a signature that fails: the
\* principal lookup, the verification, and nothing after
C16_Witness ==
    /\ LastIsJWT /\ LastJWT.alg \in SigningMethodHMAC
    /\ NamesStoredPrincipal(LastJWT.claims) /\ ~CorrectlySigned(LastJWT)
    /\ LastJWT.claims.TokenID \in DOMAIN tokenStore
    /\ Len(LastRes.calls) = 2
    /\ LastRes.calls[2] = <<"Verify", LastJWT.claims.PrincipalID>>

\* the store with a record for principal pid, if it held none
WithPrincipal(store, pid) ==
    [id \in DOMAIN store \cup {pid} |-> IF id \in DOMAIN store THEN store[id] ELSE User(pid, 0)]
\* the token store without the record id
WithoutToken(store, id) == [i \in DOMAIN store \ {id} |-> store[i]]

\* C17: a run whose credential names a principal that is not stored returns
\* what it would return were the principal stored and the verification
\* failing, and a run whose verification fails returns the same whether the
\* token record it names is stored or not.
C17_NoExistenceLeak ==
    (LastIsJWT /\ LastJWT.alg \in SigningMethodHMAC /\ LastJWT.sig = JunkSig
        /\ LastJWT.claims.TokenType \in SupportedClasses)
        => /\ ~NamesStoredPrincipal(LastJWT.claims) =>
                SameOutcome(LastRes,
                            Authenticate(LastReq,
                                         WithPrincipal(userStore, LastJWT.claims.PrincipalID),
                                         WithPrincipal(saStore, LastJWT.claims.PrincipalID),
                                         tokenStore))
           /\ SameOutcome(LastRes,
                          Authenticate(LastReq, userStore, saStore,
                                       WithoutToken(tokenStore, LastJWT.claims.TokenID)))

\* the header yields an empty credential: it begins with "Basic" and is not
\* decodable Basic credentials, or it is the bare prefix "Bearer "
EmptyCredentialHeader(h) ==
    \/ HasPrefix(h, "Basic") /\ ~BasicAuth(h).ok
    \/ h = <<Lit("Bearer ")>>

\* C18: a run on a request with a non-empty Authorization header returns what
\* it returns without the form value; the form value is the credential when
\* the header is empty; and a header that yields an empty credential fails
\* with the no-auth-data error whatever the form value holds.
C18_HeaderBeforeForm ==
    last # None =>
        /\ (LastReq.Authorization # <<>> /\ LastReq.access_token # <<>>) =>
              LastRes = Authenticate(Request(LastReq.Authorization, <<>>),
                                     userStore, saStore, tokenStore)
        /\ (LastReq.Authorization = <<>> /\ LastReq.access_token # <<>>) =>
              LastRes = sessionOf(ParseWithClaims(LastReq.access_token, userStore, saStore),
                                  tokenStore)
        /\ EmptyCredentialHeader(LastReq.Authorization) =>
              /\ LastRes.session = None
              /\ LastRes.err = Some(ErrNoAuthData)
\* undecodable Basic credentials in the header, and in the form a token that
\* alone would give a session
C18_Witness ==
    /\ last # None
    /\ HasPrefix(LastReq.Authorization, "Basic")
    /\ ~BasicAuth(LastReq.Authorization).ok
    /\ Authenticate(Request(<<>>, LastReq.access_token),
                    userStore, saStore, tokenStore).session # None
    /\ LastRes.err = Some(ErrNoAuthData)

\* C20: the token record whose class, id and grants a session carries is
\* owned by the session's principal and its class is the class the
\* credential claims: a credential signed under the secret of one principal
\* that names a token record of another yields no session.
C20_TokenBoundToOwner ==
    (LastIsJWT /\ LastRes.session # None) =>
        /\ LastRes.session[1].Metadata.TokenID \in DOMAIN tokenStore
        /\ tokenStore[LastRes.session[1].Metadata.TokenID].PrincipalID
              = LastRes.session[1].Principal.ID
        /\ tokenStore[LastRes.session[1].Metadata.TokenID].Type = LastJWT.claims.TokenType

(***************************************************************************)
(* Properties of the hook bridge.                                          *)
(***************************************************************************)
HookRun == hook[1].run
HookReceives == hook # None /\ hook[1].kind \in {"PreReceive", "PostReceive"}
HookStdin == hook[1].stdin[1]

\* C6: the hook allows the push (returns no error) exactly when the call
\* returned no transport error, an output is present, and the output carries no
\* rejection message; an empty message blocks like any other.
C6_AllowIffCleanResponse ==
    (hook # None /\ HookRun.calls # <<>>) =>
        LET c == HookRun.calls[1] IN
        (HookRun.ret = None) <=>
            (c.err = None /\ c.out # None /\ c.out[1].Error = None)
\* an output with an empty rejection message, and the push blocked
C6_Witness ==
    /\ hook # None /\ HookRun.calls # <<>>
    /\ HookRun.calls[1].err = None
    /\ HookRun.calls[1].out = Some([Error |-> Some(<<>>)])
    /\ HookRun.ret # None

\* the pieces of the stream between its line feeds: all but the last are the
\* lines a line feed ends, the last is what follows the last line feed
Pieces(data) == Split(data, LF)
TerminatedLines(data) == SubSeq(Pieces(data), 1, Len(Pieces(data)) - 1)
Remainder(data) == Pieces(data)[Len(Pieces(data))]
\* a line splits into exactly three fields when it holds exactly two spaces
ThreeFields(line) == Cardinality({i \in 1..Len(line) : line[i] = SP}) = 2
SomeTerminatedLineMalformed(data) ==
    \E i \in 1..Len(TerminatedLines(data)) : ~ThreeFields(TerminatedLines(data)[i])
ParseFailed == HookRun.refUpdates = None /\ HookRun.ret # None

\* C7, as claimed: when any line of the stream, the last one included whether
\* a line feed ends it or not, does not split into exactly three fields, the
\* parse fails and returns no sequence.
C7_AnyMalformedLineFails ==
    (HookReceives /\
        (\/ SomeTerminatedLineMalformed(HookStdin.data)
         \/ (Remainder(HookStdin.data) # <<>> /\ ~ThreeFields(Remainder(HookStdin.data)))))
        => ParseFailed

\* C7, as the code has it: when any line that a line feed ends does not split
\* into exactly three fields, the parse fails and returns no sequence, neither
\* the updates of the earlier lines nor a result without the offending line;
\* what follows the last line feed is not examined.
C7_MalformedTerminatedLineFails ==
    (HookReceives /\ SomeTerminatedLineMalformed(HookStdin.data)) => ParseFailed
\* a well-formed line followed by a malformed one
C7_Witness ==
    /\ HookReceives /\ HookStdin.end = "EOF"
    /\ Len(TerminatedLines(HookStdin.data)) = 2
    /\ ThreeFields(TerminatedLines(HookStdin.data)[1])
    /\ ~ThreeFields(TerminatedLines(HookStdin.data)[2])
    /\ ParseFailed

\* C8: in PreReceive and PostReceive a failed parse ends the hook with an error
\* and without any call to the serving process; a call is issued only after a
\* successful parse, with the updates parsed.
C8_NoCallAfterFailedParse ==
    HookReceives =>
        LET p == getUpdatedReferencesFromStdIn(HookStdin) IN
        /\ p.err # None => (HookRun.ret # None /\ HookRun.calls = <<>>)
        /\ HookRun.calls # <<>> =>
              /\ p.err = None
              /\ \A i \in 1..Len(HookRun.calls) : HookRun.calls[i].in.RefUpdates = p.refs[1]
C8_Witness ==
    /\ HookReceives /\ hook[1].kind = "PreReceive"
    /\ getUpdatedReferencesFromStdIn(HookStdin).err # None
    /\ HookRun.ret # None /\ HookRun.calls = <<>>

\* C9: a hook run issues at most one call to the serving process, exactly one
\* for Update and for a pre- or post-receive whose input parsed, and a call
\* that ends in a transport error ends the run with an error and no second call.
C9_SingleCall ==
    hook # None =>
        /\ Len(HookRun.calls) <= 1
        /\ hook[1].kind = "Update" => Len(HookRun.calls) = 1
        /\ (HookReceives /\ getUpdatedReferencesFromStdIn(HookStdin).err = None)
              => Len(HookRun.calls) = 1
        /\ \A i \in 1..Len(HookRun.calls) :
              HookRun.calls[i].err # None => (HookRun.ret # None /\ Len(HookRun.calls) = 1)
\* an update hook whose call met a transport error
C9_Witness ==
    /\ hook # None /\ hook[1].kind = "Update"
    /\ Len(HookRun.calls) = 1 /\ HookRun.calls[1].err # None
    /\ HookRun.ret # None

\* the run's call came back without a transport error, with an output that
\* carries a rejection message
Rejected ==
    /\ hook # None /\ HookRun.calls # <<>>
    /\ HookRun.calls[1].err = None
    /\ HookRun.calls[1].out # None
    /\ HookRun.calls[1].out[1].Error # None
RejectionMessage == HookRun.calls[1].out[1].Error[1]

\* C11: when the call succeeds and the response carries a rejection message m,
\* the hook returns an error whose text is exactly m: nothing is put before or
\* after it and nothing replaces it.
C11_MessageVerbatim ==
    Rejected => HookRun.ret = Some(RejectionMessage)
C11_Witness ==
    /\ Rejected /\ hook[1].kind = "PreReceive"
    /\ RejectionMessage = <<"branch main is protected">>
    /\ HookRun.ret = Some(<<"branch main is protected">>)

\* the run's call ended in a transport error
TransportFailed ==
    /\ hook # None /\ HookRun.calls # <<>>
    /\ HookRun.calls[1].err # None
TransportError == HookRun.calls[1].err[1]
\* what the hook reports for a response that carries the rejection message m
ReportedFor(m) == handleServerHookOutput(Some([Error |-> Some(m)]), None)

\* C12, as claimed: the error text the hook reports for a transport error
\* differs from the text it reports for every rejection message.
C12_TransportNeverLooksLikeRejection ==
    TransportFailed => \A m \in Messages : HookRun.ret # ReportedFor(m)

\* C12, as the code has it: the text the hook reports for a transport error e
\* is the fixed words "an error occured when calling the server: " followed
\* by the text of e, and it differs from the text reported for every rejection
\* message m other than those very words followed by the text of e.
C12_TransportDistinctFromOtherMessages ==
    TransportFailed =>
        /\ HookRun.ret = Some(ErrCallingServer(TransportError))
        /\ \A m \in Messages :
              m # ErrCallingServer(TransportError) => HookRun.ret # ReportedFor(m)
\* a refused connection, while a rejection message could hold the words
\* "connection refused"
C12_Witness ==
    /\ TransportFailed /\ hook[1].kind = "PostReceive"
    /\ TransportError = <<"connection refused">>
    /\ <<"connection refused">> \in Messages
    /\ HookRun.ret # ReportedFor(<<"connection refused">>)

\* the number of line feeds of the stream
LFCount(data) == Cardinality({i \in 1..Len(data) : data[i] = LF})
ParseSucceeded == HookReceives /\ HookRun.refUpdates # None

\* C19: when the parse succeeds the sequence has one entry for each line
\* feed of the stream, the n-th entry holding the three fields of the n-th
\* line; what follows the last line feed is dropped without error and is not
\* in the sequence; the call to the serving process is made with that
\* sequence, and an empty stream gives an empty sequence and still a call.
C19_OneEntryPerLineFeed ==
    /\ ParseSucceeded =>
          LET refs == HookRun.refUpdates[1]
              lines == TerminatedLines(HookStdin.data)
          IN  /\ Len(refs) = LFCount(HookStdin.data)
              /\ \A n \in 1..Len(refs) :
                    refs[n] = [Old |-> Split(lines[n], SP)[1],
                               New |-> Split(lines[n], SP)[2],
                               Ref |-> Split(lines[n], SP)[3]]
              /\ Len(HookRun.calls) = 1
              /\ HookRun.calls[1].in.RefUpdates = refs
    /\ (HookReceives /\ HookStdin = [data |-> <<>>, end |-> "EOF"]) =>
          /\ HookRun.refUpdates = Some(<<>>)
          /\ Len(HookRun.calls) = 1
          /\ HookRun.calls[1].in.RefUpdates = <<>>
\* one line, and after its line feed three more fields that no line feed ends
C19_Witness ==
    /\ ParseSucceeded /\ hook[1].kind = "PreReceive"
    /\ Len(HookRun.refUpdates[1]) = 1
    /\ Remainder(HookStdin.data) # <<>>
    /\ ThreeFields(Remainder(HookStdin.data))
    /\ Len(HookRun.calls) = 1

(***************************************************************************)
(* Properties of the line protocol.                                        *)
(***************************************************************************)
\* C10, as claimed: writing any sequence of updates in the line protocol and
\* parsing the stream yields the sequence, with its length and its order.
C10_RoundTripAnyFields ==
    codec # None =>
        /\ codec[1].parsed.err = None
        /\ codec[1].parsed.refs = Some(codec[1].updates)

\* no field holds a space or a line feed
CleanField(f) == \A i \in 1..Len(f) : f[i] \notin {SP, LF}
CleanUpdates(updates) ==
    \A i \in 1..Len(updates) :
        CleanField(updates[i].Old) /\ CleanField(updates[i].New) /\ CleanField(updates[i].Ref)

\* C10, as the code has it: the round trip yields the sequence, with its length
\* and its order, when no field of it holds a space or a line feed.
C10_RoundTrip ==
    (codec # None /\ CleanUpdates(codec[1].updates)) =>
        /\ codec[1].parsed.err = None
        /\ codec[1].parsed.refs # None
        /\ Len(codec[1].parsed.refs[1]) = Len(codec[1].updates)
        /\ \A n \in 1..Len(codec[1].updates) :
              /\ codec[1].parsed.refs[1][n].Old = codec[1].updates[n].Old
              /\ codec[1].parsed.refs[1][n].New = codec[1].updates[n].New
              /\ codec[1].parsed.refs[1][n].Ref = codec[1].updates[n].Ref
\* two different updates, read back in the order written
C10_Witness ==
    /\ codec # None /\ CleanUpdates(codec[1].updates)
    /\ Len(codec[1].updates) = 2
    /\ codec[1].updates[1] # codec[1].updates[2]
    /\ codec[1].updates[1].Old # codec[1].updates[1].New
    /\ codec[1].parsed.refs = Some(codec[1].updates)

(***************************************************************************)
(* Properties of FileViewAdd.                                              *)
(***************************************************************************)
FileViewRun == fileView[1].run
FileViewCalls == FileViewRun.calls
\* the run called the store's Upsert
UpsertCalled == \E i \in 1..Len(FileViewCalls) : FileViewCalls[i][1] = "Upsert"
\* the calls that come before an Upsert: the input was valid, access was
\* granted, the pull request was found, and the path was looked up at the
\* provided commit and then at the merge base
ChecksBeforeUpsert ==
    /\ Len(FileViewCalls) = 6
    /\ FileViewCalls[1] = <<"Validate", "ok">>
    /\ FileViewCalls[2] = <<"getRepoCheckAccess", "ok">>
    /\ FileViewCalls[3] = <<"FindByNumber", "ok">>
    /\ FileViewCalls[4][1] = "GetTreeNode provided"
    /\ FileViewCalls[4][2] \in {"found", "absent"}
    /\ FileViewCalls[5][1] = "GetTreeNode merge base"
    /\ FileViewCalls[5][2] \in {"found", "absent"}
    /\ FileViewCalls[6][1] = "Upsert"
    /\ (FileViewCalls[4][2] = "found") <=> (FileViewRun.inNode # None)
    /\ (FileViewCalls[5][2] = "found") <=> (FileViewRun.mergeBaseNode # None)
    /\ FileViewRun.inNode # None \/ FileViewRun.mergeBaseNode # None
    /\ (FileViewRun.inNode # None /\ FileViewRun.mergeBaseNode # None)
          => FileViewRun.inNode[1].SHA # FileViewRun.mergeBaseNode[1].SHA
\* the record a successful run returns and stores
RecordedRight ==
    FileViewRun.fileView # None =>
        /\ (FileViewRun.fileView[1].SHA = NilSHA) <=> (FileViewRun.inNode = None)
        /\ FileViewRun.inNode # None =>
              FileViewRun.fileView[1].SHA = FileViewRun.inNode[1].SHA
        /\ FileViewRun.fileView[1].Obsolete = FALSE
        /\ FileViewRun.fileView[1] \in fileViewStore

\* C21, as claimed: an Upsert comes only after the input was valid, access
\* was granted, the pull request was found and the path was found at the
\* provided commit or at the merge base, with different ids when at both; no
\* run that ends in an error has called Upsert; the recorded id is the nil
\* id exactly when the path is absent at the provided commit, and Obsolete
\* is false.
C21_NoUpsertOnAnyErrorPath ==
    fileView # None =>
        /\ UpsertCalled => ChecksBeforeUpsert
        /\ FileViewRun.err # None => ~UpsertCalled
        /\ RecordedRight

\* C21, as the code has it: the same, but for the run whose Upsert itself
\* fails: that run has called Upsert, after the same checks, and returns the
\* store's error and no record; every other run that ends in an error has
\* not called Upsert and leaves the store as it was.
C21_UpsertOnlyAfterChecks ==
    fileView # None =>
        /\ UpsertCalled => ChecksBeforeUpsert
        /\ (FileViewRun.err = None) <=> (FileViewRun.fileView # None)
        /\ FileViewRun.err = None => FileViewCalls[Len(FileViewCalls)] = <<"Upsert", "ok">>
        /\ FileViewRun.err # None =>
              \/ ~UpsertCalled /\ fileViewStore = fileView[1].before
              \/ /\ FileViewCalls[Len(FileViewCalls)] = <<"Upsert", "error">>
                 /\ FileViewRun.err = Some(ErrUpsert(ErrDB))
        /\ RecordedRight
\* a file deleted since the merge base, marked as viewed by a principal who
\* had marked an earlier version of it
C21_Witness ==
    /\ fileView # None
    /\ FileViewRun.err = None
    /\ FileViewRun.inNode = None /\ FileViewRun.mergeBaseNode # None
    /\ FileViewRun.fileView[1].SHA = NilSHA
    /\ \E old \in fileView[1].before :
          /\ old.PrincipalID = FileViewRun.fileView[1].PrincipalID
          /\ old.Path = FileViewRun.fileView[1].Path
          /\ old.SHA # NilSHA
          /\ old \notin fileViewStore

====
